---- MODULE Spec2Model ----
(***************************************************************************)
(* Alertmanager webhook receiver (src/main.go): the POST handler of        *)
(* /api/v1/webhooks/alertmanager reconciles each alert of a payload with   *)
(* the alerts table (lookup by fingerprint, then create / update / count   *)
(* as duplicate) and maintains four Prometheus counters.                   *)
(*                                                                         *)
(* One handler invocation is a process; its steps are the database calls   *)
(* and counter increments of the handler, so that concurrent requests      *)
(* interleave at the granularity of lookup / insert / update.              *)
(***************************************************************************)
EXTENDS Naturals, Sequences, FiniteSets, TLC

\* ------------------------------------------------------------------ bounds
\* Cap of the received counter (irm_webhooks_alertmanager_total) when requests
\* run one at a time; it also bounds the alerts array of one payload.
MaxTotal == 3
\* Cap of the received counter when requests run concurrently.
MaxTotalConc == 2
\* Number of store calls that may fail for an infrastructure reason.
MaxFaults == 1

\* ------------------------------------------------------------------ inputs
Handlers == {1, 2}
Fingerprints == {"", "a1"}
Statuses == {"firing", "resolved"}
\* Payload variants per (fingerprint, status).
Stamps == {0, 1}

\* A Go map[string]string; isNil is the nil map an absent JSON member leaves.
NilMap == [isNil |-> TRUE, kv |-> << >>]

LabelsOf(v) ==
    IF v = 0 THEN NilMap
    ELSE [isNil |-> FALSE,
          kv |-> [k \in {"severity", "alertname"} |-> ToString(v)]]

AnnotationsOf(v) ==
    IF v = 0 THEN NilMap
    ELSE [isNil |-> FALSE, kv |-> [k \in {"summary"} |-> ToString(v)]]

\* One element of AlertWebhook.Alerts.  The variant v fixes the fields the
\* handler never inspects: labels, annotations, startsAt, endsAt.
MkAlert(fp, st, v) ==
    [Fingerprint |-> fp, Status |-> st,
     Labels |-> LabelsOf(v), Annotations |-> AnnotationsOf(v),
     StartsAt |-> v, EndsAt |-> v + 1]

\* The alerts the payloads are drawn from: every fingerprint with every
\* status; the empty fingerprint, which matters for being empty, comes in
\* one variant.
Alerts ==
    {a \in {MkAlert(fp, st, v) : fp \in Fingerprints, st \in Statuses, v \in Stamps} :
        a.Fingerprint = "" => a.StartsAt = 0}

\* The alerts arrays of length n a bound payload may carry.
Batches(n) == [1..n -> Alerts]

\* ------------------------------------------------------------- pure helpers
\* encoding/json orders the members of a marshalled map by key.
KeyOrder == <<"alertname", "severity", "summary">>

\* json.Marshal of a map[string]string: "null" for the nil map, otherwise the
\* members as (key, value) pairs in key order.
Marshal(m) ==
    IF m.isNil THEN [null |-> TRUE, members |-> << >>]
    ELSE LET ks == SelectSeq(KeyOrder, LAMBDA k : k \in DOMAIN m.kv)
         IN [null |-> FALSE, members |-> [i \in 1..Len(ks) |-> <<ks[i], m.kv[ks[i]]>>]]

\* The zero value of Alert (var existing Alert).
ZeroAlert ==
    [ID |-> 0, Fingerprint |-> "", Status |-> "",
     Labels |-> [null |-> TRUE, members |-> << >>],
     Annotations |-> [null |-> TRUE, members |-> << >>],
     StartsAt |-> 0, EndsAt |-> 0, CreatedAt |-> 0]

\* Rows of the table whose fingerprint column equals fp.
RowsOf(st, fp) == {i \in 1..Len(st) : st[i].Fingerprint = fp}

\* db.Where("fingerprint = ?", fp).First(&existing): the matching row with the
\* smallest primary key, or gorm.ErrRecordNotFound.
First(st, fp) ==
    LET rows == RowsOf(st, fp)
    IN IF rows = {} THEN [found |-> FALSE, rec |-> ZeroAlert]
       ELSE [found |-> TRUE,
             rec |-> st[CHOOSE i \in rows : \A j \in rows : st[i].ID <= st[j].ID]]

\* Mutant: a new row is always stored as firing.
NewAlertFiring(a, id, t) ==
    [ID |-> id, Fingerprint |-> a.Fingerprint, Status |-> "firing",
     Labels |-> Marshal(a.Labels), Annotations |-> Marshal(a.Annotations),
     StartsAt |-> a.StartsAt, EndsAt |-> a.EndsAt, CreatedAt |-> t]

\* The Alert literal of the not-found branch.
NewAlert(a, id, t) ==
    [ID |-> id, Fingerprint |-> a.Fingerprint, Status |-> a.Status,
     Labels |-> Marshal(a.Labels), Annotations |-> Marshal(a.Annotations),
     StartsAt |-> a.StartsAt, EndsAt |-> a.EndsAt, CreatedAt |-> t]

\* Mutant: the fingerprint column carries no unique index.
UniqueViolationNoIndex(st, fp) == FALSE

\* The unique index on the fingerprint column rejects a second row.
UniqueViolation(st, fp) == RowsOf(st, fp) # {}

\* INSERT of db.Create.
Insert(st, row) == Append(st, row)

\* Mutant: the update selects the status column only.
UpdateStatusOnly(st, id, status, endsAt) ==
    [i \in 1..Len(st) |->
        IF st[i].ID = id THEN [st[i] EXCEPT !.Status = status] ELSE st[i]]

\* Mutant: the UPDATE has no WHERE clause and writes every row.
UpdateAllRows(st, id, status, endsAt) ==
    [i \in 1..Len(st) |-> [st[i] EXCEPT !.Status = status, !.EndsAt = endsAt]]

\* UPDATE alerts SET status, ends_at WHERE id = existing.ID
\* (db.Model(&existing).Select("Status", "EndsAt").Updates(...)).
UpdateStatusEndsAt(st, id, status, endsAt) ==
    [i \in 1..Len(st) |->
        IF st[i].ID = id
        THEN [st[i] EXCEPT !.Status = status, !.EndsAt = endsAt]
        ELSE st[i]]

\* Mutant: the comparison of the found branch is inverted.
StatusDiffersInverted(rec, a) == rec.Status = a.Status

\* The branch of the found case: existing.Status != alert.Status.
StatusDiffers(rec, a) == rec.Status # a.Status

\* Mutant: a changed status is counted as updated without the update call.
BranchSkipsUpdate(r, a) ==
    IF ~r.found THEN "create"
    ELSE IF StatusDiffers(r.rec, a) THEN "incUpdated"
    ELSE "incDuplicate"

\* Mutant: every found alert is updated, whatever its status.
BranchAlwaysUpdate(r, a) == IF ~r.found THEN "create" ELSE "update"

\* Where the loop body goes after the lookup returned r for alert a: the
\* not-found branch creates, the found branch updates or counts a duplicate.
Branch(r, a) ==
    IF ~r.found THEN "create"
    ELSE IF StatusDiffers(r.rec, a) THEN "update"
    ELSE "incDuplicate"

\* The database as one value: table, primary-key sequence, clock readings.
Db(st, id, t) == [store |-> st, nextID |-> id, now |-> t]

\* One loop iteration run alone, with no store failure and no other request
\* in between: the database it leaves and the branch it took.
ReconcileOne(db, a) ==
    LET r == First(db.store, a.Fingerprint)
        br == Branch(r, a)
    IN IF br = "create"
       THEN IF UniqueViolation(db.store, a.Fingerprint)
            THEN [db |-> Db(db.store, db.nextID + 1, db.now + 1), outcome |-> "Error"]
            ELSE [db |-> Db(Insert(db.store, NewAlert(a, db.nextID, db.now + 1)),
                            db.nextID + 1, db.now + 1),
                  outcome |-> "New"]
       ELSE IF br = "update"
       THEN [db |-> Db(UpdateStatusEndsAt(db.store, r.rec.ID, a.Status, a.EndsAt),
                       db.nextID, db.now),
             outcome |-> "Updated"]
       ELSE [db |-> db, outcome |-> "Duplicate"]

\* The whole loop over payload b from position i, run alone with no store
\* failure; it returns at the first error like the handler.
RECURSIVE RunFrom(_, _, _)
RunFrom(db, b, i) ==
    IF i > Len(b) THEN [db |-> db, outcomes |-> << >>]
    ELSE LET one == ReconcileOne(db, b[i])
         IN IF one.outcome = "Error"
            THEN [db |-> one.db, outcomes |-> <<"Error">>]
            ELSE LET rest == RunFrom(one.db, b, i + 1)
                 IN [db |-> rest.db, outcomes |-> <<one.outcome>> \o rest.outcomes]

RunBatch(db, b) == RunFrom(db, b, 1)


\* ------------------------------------------------------------------- state
VARIABLES
    store,      \* the alerts table: rows in insertion order
    nextID,     \* next value of the primary-key sequence
    counters,   \* the four Prometheus counters
    now,        \* number of readings of time.Now() so far
    faults,     \* store calls failed so far for an infrastructure reason
    pc,         \* per handler: position in the handler
    batch,      \* per handler: webhook.Alerts
    idx,        \* per handler: loop position (1-based)
    existing,   \* per handler: var existing Alert
    newAlert,   \* per handler: the literal newAlert, zero outside its block
    resp,       \* per handler: the response written (code 0: none yet)
    outcomes,   \* history, per handler: branch each alert processed so far ended in
    opres,      \* history, per handler: result of the store call made for each alert
    start,      \* history, per handler: the database when the request was bound
    before,     \* history, per handler: the table at the lookup of the current alert
    last        \* history, per fingerprint: the last alert classified and the one before

vars == <<store, nextID, counters, now, faults, pc, batch, idx, existing, newAlert,
          resp,
          outcomes, opres, start, before, last>>

NoResp == [code |-> 0, error |-> ""]

\* No alert yet (Status "" is carried by no payload of the model).
NoAlert == [Fingerprint |-> "", Status |-> "", Labels |-> NilMap,
            Annotations |-> NilMap, StartsAt |-> 0, EndsAt |-> 0]

NoEntry == [alert |-> NoAlert, outcome |-> "None", row |-> ZeroAlert]

NoLast == [alert |-> NoAlert, outcome |-> "None", row |-> ZeroAlert,
           changed |-> FALSE, prior |-> NoEntry, news |-> 0, lost |-> 0,
           writers |-> {}]

Init ==
    /\ store = << >>
    /\ nextID = 1
    /\ counters = [total |-> 0, new |-> 0, duplicate |-> 0, updated |-> 0]
    /\ now = 0
    /\ faults = 0
    /\ pc = [h \in Handlers |-> "idle"]
    /\ batch = [h \in Handlers |-> << >>]
    /\ idx = [h \in Handlers |-> 0]
    /\ existing = [h \in Handlers |-> ZeroAlert]
    /\ newAlert = [h \in Handlers |-> ZeroAlert]
    /\ resp = [h \in Handlers |-> NoResp]
    /\ outcomes = [h \in Handlers |-> << >>]
    /\ opres = [h \in Handlers |-> << >>]
    /\ start = [h \in Handlers |-> Db(<< >>, 1, 0)]
    /\ before = [h \in Handlers |-> << >>]
    /\ last = [fp \in Fingerprints |-> NoLast]

\* The alert the loop of handler h is at.
Cur(h) == batch[h][idx[h]]

\* History: the alert handler h is at ends in `out`, the table being st.
Classify(h, out, st) ==
    /\ outcomes' = [outcomes EXCEPT ![h] = Append(@, out)]
    /\ last' = [last EXCEPT ![Cur(h).Fingerprint] =
            [alert |-> Cur(h), outcome |-> out,
             row |-> First(st, Cur(h).Fingerprint).rec,
             changed |-> (st # before[h]),
             prior |-> [alert |-> @.alert, outcome |-> @.outcome, row |-> @.row],
             news |-> IF out = "New" THEN @.news + 1 ELSE @.news,
             lost |-> IF out = "Error" THEN @.lost + (Len(batch[h]) - idx[h] + 1)
                                       ELSE @.lost,
             writers |-> IF out \in {"New", "Updated"}
                         THEN @.writers \cup {<<Cur(h).Status, Cur(h).EndsAt>>}
                         ELSE @.writers]]

\* ------------------------------------------------------------------ actions
\* The locals of a handler that is not running.
Cleared(h) ==
    /\ batch' = [batch EXCEPT ![h] = << >>]
    /\ idx' = [idx EXCEPT ![h] = 0]
    /\ existing' = [existing EXCEPT ![h] = ZeroAlert]
    /\ newAlert' = [newAlert EXCEPT ![h] = ZeroAlert]
    /\ outcomes' = [outcomes EXCEPT ![h] = << >>]
    /\ opres' = [opres EXCEPT ![h] = << >>]
    /\ before' = [before EXCEPT ![h] = << >>]

\* c.ShouldBindJSON fails: 400, nothing counted.
BindFail(h) ==
    /\ pc[h] = "idle"
    /\ pc' = [pc EXCEPT ![h] = "done"]
    /\ resp' = [resp EXCEPT ![h] = [code |-> 400, error |-> "bind"]]
    /\ Cleared(h)
    /\ start' = [start EXCEPT ![h] = Db(store, nextID, now)]
    /\ UNCHANGED <<store, nextID, counters, now, faults, last>>

\* Mutant: the received counter is raised by one for each request.
BindCountsRequests(h, b, cap) ==
    /\ counters.total + Len(b) <= cap
    /\ pc[h] = "idle"
    /\ batch' = [batch EXCEPT ![h] = b]
    /\ counters' = [counters EXCEPT !.total = @ + 1]
    /\ idx' = [idx EXCEPT ![h] = 1]
    /\ start' = [start EXCEPT ![h] = Db(store, nextID, now)]
    /\ IF Len(b) = 0
       THEN /\ pc' = [pc EXCEPT ![h] = "done"]
            /\ resp' = [resp EXCEPT ![h] = [code |-> 200, error |-> ""]]
       ELSE /\ pc' = [pc EXCEPT ![h] = "lookup"]
            /\ resp' = [resp EXCEPT ![h] = NoResp]
    /\ UNCHANGED <<store, nextID, now, faults, existing, newAlert, outcomes, opres, before, last>>

\* The request is bound to payload b and the received counter is raised by
\* len(webhook.Alerts); an empty array goes straight to the 200 response.
Bind(h, b, cap) ==
    /\ counters.total + Len(b) <= cap
    /\ pc[h] = "idle"
    /\ batch' = [batch EXCEPT ![h] = b]
    /\ counters' = [counters EXCEPT !.total = @ + Len(b)]
    /\ idx' = [idx EXCEPT ![h] = 1]
    /\ start' = [start EXCEPT ![h] = Db(store, nextID, now)]
    /\ IF Len(b) = 0
       THEN /\ pc' = [pc EXCEPT ![h] = "done"]
            /\ resp' = [resp EXCEPT ![h] = [code |-> 200, error |-> ""]]
       ELSE /\ pc' = [pc EXCEPT ![h] = "lookup"]
            /\ resp' = [resp EXCEPT ![h] = NoResp]
    /\ UNCHANGED <<store, nextID, now, faults, existing, newAlert, outcomes, opres, before, last>>

\* A request arrives; its payload is any alerts array the cap leaves room for.
Arrive(h, cap) ==
    /\ pc[h] = "idle"
    /\ counters.total <= cap
    /\ \E n \in 0..(cap - counters.total) : \E b \in Batches(n) : Bind(h, b, cap)

Receive(h) == Arrive(h, MaxTotalConc)

\* A store call fails: the handler answers 500 and returns.
AbortHangs(h, why) ==
    /\ pc' = [pc EXCEPT ![h] = "failed"]
    /\ resp' = [resp EXCEPT ![h] = NoResp]
    /\ opres' = [opres EXCEPT ![h] = Append(@, "failed")]
    /\ Classify(h, "Error", store)

\* A store call failed: 500 with the error, and the handler returns.
Abort(h, why) ==
    /\ pc' = [pc EXCEPT ![h] = "done"]
    /\ resp' = [resp EXCEPT ![h] = [code |-> 500, error |-> why]]
    /\ opres' = [opres EXCEPT ![h] = Append(@, "failed")]
    /\ Classify(h, "Error", store)

\* Mutant: the lookups read the table as it was when the request was bound.
LookupStale(h) ==
    /\ pc[h] = "lookup"
    /\ LET r == First(start[h].store, Cur(h).Fingerprint)
       IN /\ existing' = [existing EXCEPT ![h] = r.rec]
          /\ pc' = [pc EXCEPT ![h] = Branch(r, Cur(h))]
          /\ opres' = [opres EXCEPT ![h] =
                IF Branch(r, Cur(h)) = "incDuplicate" THEN Append(@, "matched") ELSE @]
    /\ before' = [before EXCEPT ![h] = store]
    /\ UNCHANGED <<newAlert, store, nextID, counters, now, faults, batch, idx, outcomes,
                   resp, start, last>>

\* db.Where(...).First(&existing) and the branch on its result.
Lookup(h) ==
    /\ pc[h] = "lookup"
    /\ LET r == First(store, Cur(h).Fingerprint)
       IN /\ existing' = [existing EXCEPT ![h] = r.rec]
          /\ pc' = [pc EXCEPT ![h] = Branch(r, Cur(h))]
          /\ opres' = [opres EXCEPT ![h] =
                IF Branch(r, Cur(h)) = "incDuplicate" THEN Append(@, "matched") ELSE @]
    /\ before' = [before EXCEPT ![h] = store]
    /\ UNCHANGED <<newAlert, store, nextID, counters, now, faults, batch, idx, outcomes,
                   resp, start, last>>

\* Mutant: the loop runs in a transaction that a failed lookup rolls back.
LookupFailRollsBack(h) ==
    /\ pc[h] = "lookup"
    /\ faults < MaxFaults
    /\ faults' = faults + 1
    /\ before' = [before EXCEPT ![h] = store]
    /\ store' = start[h].store
    /\ pc' = [pc EXCEPT ![h] = "done"]
    /\ resp' = [resp EXCEPT ![h] = [code |-> 500, error |-> "store"]]
    /\ opres' = [opres EXCEPT ![h] = Append(@, "failed")]
    /\ Classify(h, "Error", start[h].store)
    /\ UNCHANGED <<nextID, counters, now, batch, idx, existing, newAlert, start>>

\* Mutant: every lookup error is taken for ErrRecordNotFound.
LookupFailCreates(h) ==
    /\ pc[h] = "lookup"
    /\ faults < MaxFaults
    /\ faults' = faults + 1
    /\ before' = [before EXCEPT ![h] = store]
    /\ pc' = [pc EXCEPT ![h] = "create"]
    /\ UNCHANGED <<store, nextID, counters, now, batch, idx, existing, newAlert, resp,
                   outcomes, opres, start, last>>

\* The lookup returns an error other than ErrRecordNotFound.
LookupFail(h) ==
    /\ pc[h] = "lookup"
    /\ faults < MaxFaults
    /\ faults' = faults + 1
    /\ before' = [before EXCEPT ![h] = store]
    /\ Abort(h, "store")
    /\ UNCHANGED <<store, nextID, counters, now, batch, idx, existing, newAlert, start>>

\* The literal newAlert is built: json.Marshal of labels and annotations, and
\* CreatedAt: time.Now() (readings increase); the ID is still zero.
MakeNew(h) ==
    /\ pc[h] = "create"
    /\ now' = now + 1
    /\ newAlert' = [newAlert EXCEPT ![h] = NewAlert(Cur(h), 0, now + 1)]
    /\ pc' = [pc EXCEPT ![h] = "insert"]
    /\ UNCHANGED <<store, nextID, counters, faults, batch, idx, existing, resp,
                   outcomes, opres, start, before, last>>

\* db.Create(&newAlert): the row gets the next sequence value as its ID.  The
\* unique index rejects the row when the fingerprint is present by now; the
\* sequence value is spent.
Create(h) ==
    /\ pc[h] = "insert"
    /\ nextID' = nextID + 1
    /\ newAlert' = [newAlert EXCEPT ![h] = ZeroAlert]
    /\ IF UniqueViolation(store, Cur(h).Fingerprint)
       THEN /\ Abort(h, "duplicate key")
            /\ UNCHANGED store
       ELSE /\ store' = Insert(store, [newAlert[h] EXCEPT !.ID = nextID])
            /\ pc' = [pc EXCEPT ![h] = "incNew"]
            /\ opres' = [opres EXCEPT ![h] = Append(@, "inserted")]
            /\ UNCHANGED <<outcomes, resp, last>>
    /\ UNCHANGED <<counters, now, faults, batch, idx, existing, start, before>>

\* Mutant: the new counter is incremented before the insert's error is looked at.
CreateFailCounts(h) ==
    /\ pc[h] = "insert"
    /\ faults < MaxFaults
    /\ faults' = faults + 1
    /\ newAlert' = [newAlert EXCEPT ![h] = ZeroAlert]
    /\ counters' = [counters EXCEPT !.new = @ + 1]
    /\ Abort(h, "store")
    /\ UNCHANGED <<store, nextID, now, batch, idx, existing, start, before>>

\* db.Create fails for an infrastructure reason: nothing is inserted.
CreateFail(h) ==
    /\ pc[h] = "insert"
    /\ faults < MaxFaults
    /\ faults' = faults + 1
    /\ newAlert' = [newAlert EXCEPT ![h] = ZeroAlert]
    /\ Abort(h, "store")
    /\ UNCHANGED <<store, nextID, counters, now, batch, idx, existing, start, before>>

\* Mutant: the status is written from the alert, ends-at from the row read.
UpdateTorn(h) ==
    /\ pc[h] = "update"
    /\ store' = UpdateStatusEndsAt(store, existing[h].ID, Cur(h).Status, existing[h].EndsAt)
    /\ pc' = [pc EXCEPT ![h] = "incUpdated"]
    /\ opres' = [opres EXCEPT ![h] = Append(@, "updated")]
    /\ UNCHANGED <<nextID, counters, now, faults, batch, idx, existing, newAlert, outcomes,
                   resp, start, before, last>>

\* db.Model(&existing).Select("Status", "EndsAt").Updates(...).
Update(h) ==
    /\ pc[h] = "update"
    /\ store' = UpdateStatusEndsAt(store, existing[h].ID, Cur(h).Status, Cur(h).EndsAt)
    /\ pc' = [pc EXCEPT ![h] = "incUpdated"]
    /\ opres' = [opres EXCEPT ![h] = Append(@, "updated")]
    /\ UNCHANGED <<nextID, counters, now, faults, batch, idx, existing, newAlert, outcomes,
                   resp, start, before, last>>

\* The update fails for an infrastructure reason: no row is written.
UpdateFail(h) ==
    /\ pc[h] = "update"
    /\ faults < MaxFaults
    /\ faults' = faults + 1
    /\ Abort(h, "store")
    /\ UNCHANGED <<store, nextID, counters, now, batch, idx, existing, newAlert, start, before>>

\* Mutant: the handler answers 200 after the first alert it processed.
AdvanceStop(h) ==
    /\ idx' = [idx EXCEPT ![h] = @ + 1]
    /\ pc' = [pc EXCEPT ![h] = "done"]
    /\ resp' = [resp EXCEPT ![h] = [code |-> 200, error |-> ""]]

\* End of one loop iteration: the next alert, or the 200 response after the
\* last one.
Advance(h) ==
    /\ idx' = [idx EXCEPT ![h] = @ + 1]
    /\ IF idx[h] = Len(batch[h])
       THEN /\ pc' = [pc EXCEPT ![h] = "done"]
            /\ resp' = [resp EXCEPT ![h] = [code |-> 200, error |-> ""]]
       ELSE /\ pc' = [pc EXCEPT ![h] = "lookup"]
            /\ UNCHANGED resp

\* irmWebhooksAlertmanagerNewTotal.Inc()
IncNew(h) ==
    /\ pc[h] = "incNew"
    /\ counters' = [counters EXCEPT !.new = @ + 1]
    /\ Classify(h, "New", store)
    /\ Advance(h)
    /\ UNCHANGED <<store, nextID, now, faults, batch, existing, newAlert, opres, start, before>>

\* irmWebhooksAlertmanagerUpdatedTotal.Inc()
IncUpdated(h) ==
    /\ pc[h] = "incUpdated"
    /\ counters' = [counters EXCEPT !.updated = @ + 1]
    /\ Classify(h, "Updated", store)
    /\ Advance(h)
    /\ UNCHANGED <<store, nextID, now, faults, batch, existing, newAlert, opres, start, before>>

\* irmWebhooksAlertmanagerDuplicateTotal.Inc()
IncDuplicate(h) ==
    /\ pc[h] = "incDuplicate"
    /\ counters' = [counters EXCEPT !.duplicate = @ + 1]
    /\ Classify(h, "Duplicate", store)
    /\ Advance(h)
    /\ UNCHANGED <<store, nextID, now, faults, batch, existing, newAlert, opres, start, before>>

\* The handler has returned: its locals are gone and the server can run it for
\* the next request.
Return(h) ==
    /\ pc[h] = "done"
    /\ pc' = [pc EXCEPT ![h] = "idle"]
    /\ resp' = [resp EXCEPT ![h] = NoResp]
    /\ Cleared(h)
    /\ start' = [start EXCEPT ![h] = Db(<< >>, 1, 0)]
    /\ UNCHANGED <<store, nextID, counters, now, faults, last>>

\* The steps of a running handler.
Step(h) ==
    \/ Lookup(h)
    \/ LookupFail(h)
    \/ MakeNew(h)
    \/ Create(h)
    \/ CreateFail(h)
    \/ Update(h)
    \/ UpdateFail(h)
    \/ IncNew(h)
    \/ IncUpdated(h)
    \/ IncDuplicate(h)
    \/ Return(h)

\* Requests of independent callers run concurrently.
Next == \E h \in Handlers : Receive(h) \/ BindFail(h) \/ Step(h)

Spec == Init /\ [][Next]_vars

\* One request at a time: a request is bound only while no other is running
\* (the handlers being interchangeable, the first one serves them all).
Alone(h) ==
    /\ \A g \in Handlers : pc[g] = "idle"
    /\ \A g \in Handlers : h <= g

ReceiveAlone(h) == Alone(h) /\ Arrive(h, MaxTotal)

BindFailAlone(h) == Alone(h) /\ BindFail(h)

NextSeq == \E h \in Handlers : ReceiveAlone(h) \/ BindFailAlone(h) \/ Step(h)

SpecSeq == Init /\ [][NextSeq]_vars

\* The payloads are drawn from the alerts of one non-empty fingerprint and
\* one timestamp: which store call comes next depends only on whether the
\* fingerprint is in the table and on the status.
LiveAlerts == {a \in Alerts : a.Fingerprint # "" /\ a.StartsAt = 0}

ReceiveLive(h) ==
    /\ pc[h] = "idle"
    /\ counters.total <= MaxTotalConc
    /\ \E n \in 0..(MaxTotalConc - counters.total) :
          \E b \in [1..n -> LiveAlerts] : Bind(h, b, MaxTotalConc)

NextLive == \E h \in Handlers : ReceiveLive(h) \/ BindFail(h) \/ Step(h)

\* Concurrent requests whose handlers keep being scheduled and whose store
\* calls return: a handler that can take a step eventually takes one.
SpecLive == Init /\ [][NextLive]_vars /\ \A h \in Handlers : WF_vars(Step(h))

\* The alerts of the one-alert requests: two fingerprints, one of them in
\* both statuses, the resolved alert with later timestamps and other labels
\* than the firing one.
OneAlerts == {a \in Alerts : a.StartsAt = IF a.Status = "firing" THEN 0 ELSE 1}

\* Concurrent requests that carry at most one alert each.
ReceiveOne(h) ==
    /\ pc[h] = "idle"
    /\ counters.total <= MaxTotal
    /\ \E n \in {k \in {0, 1} : counters.total + k <= MaxTotal} :
          \E b \in [1..n -> OneAlerts] : Bind(h, b, MaxTotal)

NextOne == \E h \in Handlers : ReceiveOne(h) \/ BindFail(h) \/ Step(h)

SpecOne == Init /\ [][NextOne]_vars

\* ------------------------------------------------------------------ claims
\* C1: in every reachable state, under any interleaving of the lookup, insert
\* and update steps of concurrent requests, the table holds at most one row
\* per fingerprint.
C1_Uniqueness ==
    \A i, j \in 1..Len(store) :
        store[i].Fingerprint = store[j].Fingerprint => i = j

\* C1 witness: two requests raced on one fingerprint; the second insert was
\* rejected and exactly one row is in the table.
C1_Witness ==
    \E h \in Handlers :
        /\ pc[h] = "done"
        /\ resp[h].error = "duplicate key"
        /\ Cardinality(RowsOf(store, Cur(h).Fingerprint)) = 1

\* Handlers h and g each ran a one-alert payload for the same fingerprint,
\* which the table held at neither bind, and both have answered.
RacePair(h, g) ==
    /\ h # g
    /\ pc[h] = "done" /\ pc[g] = "done"
    /\ Len(batch[h]) = 1 /\ Len(batch[g]) = 1
    /\ batch[h][1].Fingerprint = batch[g][1].Fingerprint
    /\ RowsOf(start[h].store, batch[h][1].Fingerprint) = {}
    /\ RowsOf(start[g].store, batch[g][1].Fingerprint) = {}

\* C2 as stated: of two concurrent one-alert requests for a never-seen
\* fingerprint (no store failure), exactly one ends New and the other ends
\* Updated or Error.
C2_Original ==
    \A h, g \in Handlers :
        (RacePair(h, g) /\ faults = 0) =>
            \E x, y \in {h, g} :
                /\ x # y
                /\ outcomes[x] = <<"New">>
                /\ Len(outcomes[y]) = 1
                /\ outcomes[y][1] \in {"Updated", "Error"}

\* C2 amended: of two concurrent one-alert requests for a never-seen
\* fingerprint, both get exactly one outcome and a response, never both New;
\* and when no store call fails for an infrastructure reason exactly one ends
\* New and the other ends Updated, Duplicate or Error (the rejected insert).
C2_RaceOutcomes ==
    \A h, g \in Handlers :
        RacePair(h, g) =>
            /\ Len(outcomes[h]) = 1 /\ Len(outcomes[g]) = 1
            /\ resp[h].code \in {200, 500} /\ resp[g].code \in {200, 500}
            /\ ~(outcomes[h] = <<"New">> /\ outcomes[g] = <<"New">>)
            /\ faults = 0 =>
                  \E x, y \in {h, g} :
                      /\ x # y
                      /\ outcomes[x] = <<"New">>
                      /\ outcomes[y][1] \in {"Updated", "Duplicate", "Error"}
                      /\ outcomes[y][1] = "Error" => resp[y].error = "duplicate key"

\* C2 witness: both lookups missed, one insert committed, the other was
\* rejected by the unique index.
C2_Witness ==
    \E h, g \in Handlers :
        /\ RacePair(h, g)
        /\ outcomes[h] = <<"New">>
        /\ outcomes[g] = <<"Error">>
        /\ resp[g].error = "duplicate key"

\* C3: with no store failure and requests run one at a time, an alert for a
\* fingerprint the table does not hold ends New; the same unchanged alert
\* reconciled next for that fingerprint ends Duplicate, leaves the table as it
\* was, and exactly one row carries the fingerprint.
C3_Idempotency ==
    \A fp \in Fingerprints :
        LET e == last[fp]
        IN faults = 0 =>
            /\ (e.outcome # "None" /\ e.prior.row.ID = 0) => e.outcome = "New"
            /\ (e.prior.outcome = "New" /\ e.prior.alert = e.alert) =>
                  /\ e.outcome = "Duplicate"
                  /\ ~e.changed
                  /\ e.row = e.prior.row
                  /\ Cardinality(RowsOf(store, fp)) = 1

\* C3 witness: an alert ended New and its unchanged repetition Duplicate.
C3_Witness ==
    \E fp \in Fingerprints :
        /\ faults = 0
        /\ last[fp].prior.outcome = "New"
        /\ last[fp].prior.alert = last[fp].alert
        /\ last[fp].outcome = "Duplicate"

\* C4: with no store failure and requests run one at a time, a firing alert
\* for an absent fingerprint followed by a resolved alert for it ends New then
\* Updated; the row then has status resolved and the ends-at of the second
\* alert, and still the starts-at of the first alert and the created-at of
\* the insertion.
C4_Transition ==
    \A fp \in Fingerprints :
        LET e == last[fp]
        IN (/\ faults = 0
            /\ e.prior.outcome = "New"
            /\ e.prior.alert.Status = "firing"
            /\ e.alert.Status = "resolved") =>
                /\ e.outcome = "Updated"
                /\ e.row.Status = "resolved"
                /\ e.row.EndsAt = e.alert.EndsAt
                /\ e.row.StartsAt = e.prior.alert.StartsAt
                /\ e.row.CreatedAt = e.prior.row.CreatedAt
                /\ e.row.ID = e.prior.row.ID
                /\ e.row.Fingerprint = fp

\* C4 witness: firing then resolved, the two alerts differing in starts-at and
\* ends-at, ended New then Updated.
C4_Witness ==
    \E fp \in Fingerprints :
        /\ faults = 0
        /\ last[fp].prior.outcome = "New"
        /\ last[fp].prior.alert.Status = "firing"
        /\ last[fp].alert.Status = "resolved"
        /\ last[fp].alert.StartsAt # last[fp].prior.alert.StartsAt
        /\ last[fp].outcome = "Updated"

\* Payload [valid, empty fingerprint, valid].
MixedBatch(b) ==
    /\ Len(b) = 3
    /\ b[1].Fingerprint # ""
    /\ b[2].Fingerprint = ""
    /\ b[3].Fingerprint # ""

\* C5: a payload [valid1, alert with empty fingerprint, valid2] (no store
\* failure) persists valid1 and valid2, creates no row for the empty
\* fingerprint and reports exactly one error outcome, at position 2.
C5_EmptyFingerprintRejected ==
    \A h \in Handlers :
        (pc[h] = "done" /\ MixedBatch(batch[h]) /\ faults = 0) =>
            /\ Len(outcomes[h]) = 3
            /\ outcomes[h][1] # "Error"
            /\ outcomes[h][2] = "Error"
            /\ outcomes[h][3] # "Error"
            /\ RowsOf(store, "") = RowsOf(start[h].store, "")
            /\ RowsOf(store, batch[h][1].Fingerprint) # {}
            /\ RowsOf(store, batch[h][3].Fingerprint) # {}

\* C6: when the store call for the alert at position i fails, every later
\* alert of the payload is still processed: a handler that has answered has
\* an outcome for every alert of its payload, the failure being one of them.
C6_FailureNotBatchFatal ==
    \A h \in Handlers :
        (pc[h] = "done" /\ resp[h].code # 400) =>
            Len(outcomes[h]) = Len(batch[h])

\* The database now.
DbNow == Db(store, nextID, now)

\* C7: requests run one at a time.  A request answered 200 leaves the
\* database and the outcomes that running its alerts alone, one after the
\* other, gives; so payload [A, A] leaves the same table and the same two
\* outcomes as payload [A] followed by payload [A], from any table.
C7_OrderIndependence ==
    \A h \in Handlers :
        (pc[h] = "done" /\ resp[h].code = 200) =>
            /\ RunBatch(start[h], batch[h]) = [db |-> DbNow, outcomes |-> outcomes[h]]
            /\ (Len(batch[h]) = 2 /\ batch[h][1] = batch[h][2]) =>
                  LET A == batch[h][1]
                      one == RunBatch(start[h], <<A>>)
                      two == RunBatch(one.db, <<A>>)
                  IN /\ two.db = DbNow
                     /\ one.outcomes \o two.outcomes = outcomes[h]

\* C7 witness: payload [A, A] answered 200 on a table that held A's
\* fingerprint with another status.
C7_Witness ==
    \E h \in Handlers :
        /\ pc[h] = "done" /\ resp[h].code = 200
        /\ Len(batch[h]) = 2 /\ batch[h][1] = batch[h][2]
        /\ outcomes[h] = <<"Updated", "Duplicate">>

\* The three outcome counters.
Counted == <<counters.new, counters.updated, counters.duplicate>>

\* Handler h records an outcome in this step.
Classifies(h) == Len(outcomes'[h]) = Len(outcomes[h]) + 1

\* C8: every step that records an outcome for an alert raises exactly the
\* counter of that outcome by one, the store call of that alert (insert for
\* New, update for Updated, lookup for Duplicate) having succeeded in an
\* earlier step; a step that records a failed store call raises none; no
\* other step changes the three counters; and a request answered 200 has
\* counted every alert of its payload.
C8_CounterAfterStore ==
    [][ /\ \A h \in Handlers :
              /\ Len(outcomes'[h]) <= Len(opres'[h])
              /\ Len(opres'[h]) <= Len(outcomes'[h]) + 1
              /\ (pc'[h] = "done" /\ resp'[h].code = 200) =>
                    /\ Len(outcomes'[h]) = Len(batch'[h])
                    /\ \A i \in 1..Len(outcomes'[h]) : outcomes'[h][i] # "Error"
        /\ \A h \in Handlers :
              Classifies(h) =>
                  LET n == Len(outcomes[h]) + 1
                      out == outcomes'[h][n]
                      succeeded(op) == Len(opres[h]) = n /\ opres[h][n] = op
                  IN /\ out = "New" =>
                          /\ succeeded("inserted")
                          /\ RowsOf(store, Cur(h).Fingerprint) # {}
                          /\ Counted' = <<counters.new + 1, counters.updated, counters.duplicate>>
                     /\ out = "Updated" =>
                          /\ succeeded("updated")
                          /\ Counted' = <<counters.new, counters.updated + 1, counters.duplicate>>
                     /\ out = "Duplicate" =>
                          /\ succeeded("matched")
                          /\ Counted' = <<counters.new, counters.updated, counters.duplicate + 1>>
                     /\ out = "Error" =>
                          /\ Len(opres[h]) = n - 1
                          /\ opres'[h][n] = "failed"
                          /\ Counted' = Counted
        /\ (\A h \in Handlers : ~Classifies(h)) => Counted' = Counted
      ]_vars

\* C8 witness: a request whose first alert was counted and whose second
\* alert failed at the store, one outcome counter standing at one.
C8_Witness ==
    \E h \in Handlers :
        /\ pc[h] = "done"
        /\ Len(outcomes[h]) = 2
        /\ outcomes[h][1] = "New"
        /\ outcomes[h][2] = "Error"
        /\ opres[h] = <<"inserted", "failed">>
        /\ Counted = <<1, 0, 0>>

\* Fingerprint, status and ends-at of every row.
Persisted(st) ==
    {[Fingerprint |-> st[i].Fingerprint, Status |-> st[i].Status, EndsAt |-> st[i].EndsAt] :
        i \in 1..Len(st)}

\* C9: requests run one at a time.  When a request was cut short by a failed
\* store call, running the same payload again with no store failure and
\* nothing in between adds no second row for any fingerprint and leaves
\* fingerprint, status and ends-at of every row as one failure-free run of
\* the payload from the original table leaves them.
C9_RetrySafe ==
    \A h \in Handlers :
        (pc[h] = "done" /\ resp[h].code = 500) =>
            LET retry == RunBatch(DbNow, batch[h])
                free == RunBatch(start[h], batch[h])
            IN /\ \A i, j \in 1..Len(retry.db.store) :
                      retry.db.store[i].Fingerprint = retry.db.store[j].Fingerprint => i = j
               /\ Len(retry.db.store) = Len(free.db.store)
               /\ Persisted(retry.db.store) = Persisted(free.db.store)
               /\ Len(retry.outcomes) = Len(batch[h])
               /\ \A i \in 1..Len(retry.outcomes) : retry.outcomes[i] # "Error"

\* C9 witness: a request that inserted a row for its first alert and failed
\* at its second.
C9_Witness ==
    \E h \in Handlers :
        /\ pc[h] = "done" /\ resp[h].code = 500
        /\ outcomes[h] = <<"New", "Error">>
        /\ Len(store) = Len(start[h].store) + 1

\* Handler h stands between two alerts, or has answered, with n outcomes.
Settled(h, n) ==
    /\ n = Len(outcomes[h])
    /\ n >= 1
    /\ pc[h] \in {"lookup", "done"}

\* C10: requests run one at a time.  When the lookup of an alert found a row
\* whose status equals the alert's, the table after the alert is the table
\* before it (ends-at, labels and annotations of the alert are ignored), and
\* the outcome is Duplicate unless the lookup itself failed.
C10_DuplicateNoOp ==
    \A h \in Handlers : \A n \in 1..Len(batch[h]) :
        Settled(h, n) =>
            LET a == batch[h][n]
                r == First(before[h], a.Fingerprint)
            IN (r.found /\ r.rec.Status = a.Status) =>
                  /\ store = before[h]
                  /\ outcomes[h][n] \in {"Duplicate", "Error"}
                  /\ faults = 0 => outcomes[h][n] = "Duplicate"

\* C10 witness: a Duplicate whose alert carried another ends-at and other
\* labels than the row.
C10_Witness ==
    \E h \in Handlers : \E n \in 1..Len(batch[h]) :
        /\ Settled(h, n)
        /\ outcomes[h][n] = "Duplicate"
        /\ First(before[h], batch[h][n].Fingerprint).rec.EndsAt # batch[h][n].EndsAt
        /\ First(before[h], batch[h][n].Fingerprint).rec.Labels # Marshal(batch[h][n].Labels)

\* The columns of a row that are written at insertion only.
Frozen(row) ==
    [ID |-> row.ID, Fingerprint |-> row.Fingerprint, Labels |-> row.Labels,
     Annotations |-> row.Annotations, StartsAt |-> row.StartsAt,
     CreatedAt |-> row.CreatedAt]

\* Handler h executes its update call in this step.
Updates(h) == pc[h] = "update" /\ pc'[h] = "incUpdated"

\* C11: under any interleaving no step removes a row or changes fingerprint,
\* labels, annotations, starts-at or created-at (or the key) of a row; a row
\* changes only in the update step of a handler whose alert carries the row's
\* fingerprint, and then only in status and ends-at, which become the
\* alert's; all other rows are left as they are.
C11_ImmutableFields ==
    [][ /\ Len(store') >= Len(store)
        /\ \A i \in 1..Len(store) :
              /\ Frozen(store'[i]) = Frozen(store[i])
              /\ store'[i] # store[i] =>
                    \E h \in Handlers :
                        /\ Updates(h)
                        /\ store[i].Fingerprint = Cur(h).Fingerprint
                        /\ store'[i] = [store[i] EXCEPT !.Status = Cur(h).Status,
                                                        !.EndsAt = Cur(h).EndsAt]
      ]_vars

\* C11 witness: with two rows in the table, a handler updated the row of its
\* alert, whose labels and starts-at differ from those the row was inserted
\* with: the row has the alert's status and ends-at and its other columns as
\* before, and the row of the other fingerprint is as it was at the lookup.
C11_Witness ==
    \E h \in Handlers :
        /\ pc[h] = "done" /\ outcomes[h] = <<"Updated">>
        /\ Len(before[h]) = 2 /\ Len(store) = 2
        /\ \E i, j \in 1..2 :
              /\ i # j
              /\ store[i].Fingerprint = batch[h][1].Fingerprint
              /\ store[i].Status = batch[h][1].Status
              /\ store[i].EndsAt = batch[h][1].EndsAt
              /\ before[h][i].Status # batch[h][1].Status
              /\ before[h][i].EndsAt # batch[h][1].EndsAt
              /\ Frozen(store[i]) = Frozen(before[h][i])
              /\ store[i].StartsAt # batch[h][1].StartsAt
              /\ store[i].Labels # Marshal(batch[h][1].Labels)
              /\ store[j].Fingerprint # batch[h][1].Fingerprint
              /\ store[j] = before[h][j]
              /\ store[j].Status # batch[h][1].Status
              /\ store[j].EndsAt # batch[h][1].EndsAt

\* The lookup of handler h fails in this step (h is the handler that moves).
LookupFails(h) ==
    /\ pc[h] = "lookup"
    /\ pc'[h] # "lookup"
    /\ faults' = faults + 1

\* C12: under any interleaving, the step in which the lookup for an alert
\* fails for a reason other than not-found records outcome Error for that
\* alert, writes no row, raises none of the three outcome counters, answers
\* 500 with the error, and ends the handler, which makes no store call for
\* the alert afterwards.
C12_LookupFailure ==
    [][ \A h \in Handlers :
            LookupFails(h) =>
                /\ outcomes'[h] = Append(outcomes[h], "Error")
                /\ store' = store
                /\ nextID' = nextID
                /\ Counted' = Counted
                /\ resp'[h].code = 500
                /\ resp'[h].error # ""
                /\ pc'[h] = "done"
      ]_vars

\* C12 witness: the second alert repeats the first, which was inserted, so
\* the store call that failed for it is the lookup; one row, one count.
C12_Witness ==
    \E h \in Handlers :
        /\ pc[h] = "done"
        /\ resp[h].code = 500
        /\ Len(batch[h]) = 2
        /\ batch[h][1] = batch[h][2]
        /\ outcomes[h] = <<"New", "Error">>
        /\ Len(store) = Len(start[h].store) + 1
        /\ Counted = <<1, 0, 0>>

\* The first n alerts of payload b.
Prefix(b, n) == SubSeq(b, 1, n)

\* C13: requests run one at a time.  No step lowers a counter; the step in
\* which a store call fails leaves the table and the counters as they are;
\* and when a request has answered 500 at position i, the table is the one
\* the alerts before i left: every insert and update made for them is kept.
C13_NoRollback ==
    [][ /\ counters'.total >= counters.total
        /\ counters'.new >= counters.new
        /\ counters'.updated >= counters.updated
        /\ counters'.duplicate >= counters.duplicate
        /\ \A h \in Handlers :
              /\ (Classifies(h) /\ pc'[h] = "done" /\ resp'[h].code = 500) =>
                    (store' = store /\ counters' = counters)
              /\ (pc'[h] = "done" /\ resp'[h].code = 500) =>
                    store' = RunBatch(start'[h],
                                      Prefix(batch'[h], Len(outcomes'[h]) - 1)).db.store
      ]_vars

\* C13 witness: the request inserted a row for its first alert, updated it
\* for the second and failed at the third; the row has the second status.
C13_Witness ==
    \E h \in Handlers :
        /\ pc[h] = "done"
        /\ resp[h].code = 500
        /\ outcomes[h] = <<"New", "Updated", "Error">>
        /\ First(store, batch[h][2].Fingerprint).rec.Status = batch[h][2].Status
        /\ counters.new = 1 /\ counters.updated = 1

\* Handler h is inside its loop.
Running(h) == pc[h] \notin {"idle", "done"}

\* An earlier alert of h's payload with the fingerprint of the current one
\* ended with its row in the table.
SeenEarlier(h) ==
    \E j \in 1..Len(outcomes[h]) :
        /\ j < idx[h]
        /\ batch[h][j].Fingerprint = Cur(h).Fingerprint
        /\ outcomes[h][j] \in {"New", "Updated", "Duplicate"}

\* C14: under any interleaving a handler works on position i of its payload
\* only when positions 1..i-1 have their store call and their outcome, one
\* store call ahead at most; its lookup sees the rows earlier alerts of the
\* payload left, so it never tries to create a fingerprint an earlier alert
\* of the payload created or found; and a payload [F firing, F resolved] that
\* is the only one received, with no store failure, ends New then Updated.
C14_InOrder ==
    \A h \in Handlers :
        /\ Running(h) =>
              /\ idx[h] = Len(outcomes[h]) + 1
              /\ idx[h] <= Len(batch[h])
              /\ Len(opres[h]) \in {idx[h] - 1, idx[h]}
              /\ pc[h] \in {"incNew", "incUpdated", "incDuplicate"} <=> Len(opres[h]) = idx[h]
              /\ pc[h] \in {"create", "insert"} => ~SeenEarlier(h)
        /\ \A i, j \in 1..Len(outcomes[h]) :
              (i < j /\ batch[h][i].Fingerprint = batch[h][j].Fingerprint
                     /\ outcomes[h][i] = "New") => outcomes[h][j] # "New"
        /\ (/\ pc[h] = "done" /\ resp[h].code # 400 /\ faults = 0
            /\ Len(batch[h]) = 2 /\ counters.total = 2
            /\ batch[h][1].Fingerprint = batch[h][2].Fingerprint
            /\ batch[h][1].Status = "firing" /\ batch[h][2].Status = "resolved") =>
                outcomes[h] = <<"New", "Updated">>

\* C14 witness: the only payload received, [F firing, F resolved], ended New
\* then Updated.
C14_Witness ==
    \E h \in Handlers :
        /\ pc[h] = "done" /\ faults = 0 /\ counters.total = 2
        /\ Len(batch[h]) = 2
        /\ batch[h][1].Fingerprint = batch[h][2].Fingerprint
        /\ batch[h][1].Status = "firing" /\ batch[h][2].Status = "resolved"
        /\ outcomes[h] = <<"New", "Updated">>
        /\ First(store, batch[h][2].Fingerprint).rec.Status = "resolved"

\* The fingerprint has a row in the table st.
Known(st, fp) == RowsOf(st, fp) # {}

\* C15: under any interleaving, over the whole execution, a fingerprint is
\* classified New at most once and only by the handler whose insert made its
\* row; a row that exists is there in every later state, with its
\* fingerprint; and an alert whose lookup ran when the row existed ends
\* Updated, Duplicate or Error, never New.
C15_Lifecycle ==
    [][ /\ \A fp \in Fingerprints :
              /\ Known(store, fp) => Known(store', fp)
              /\ last'[fp].news <= 1
              /\ last'[fp].news = 1 => Known(store', fp)
              /\ (last[fp].news = 1) =>
                    (last'[fp].outcome \in {"New", "Updated", "Duplicate", "Error"}
                       /\ (last'[fp] # last[fp] => last'[fp].outcome # "New"))
        /\ \A i \in 1..Len(store) : store'[i].Fingerprint = store[i].Fingerprint
        /\ \A h \in Handlers :
              Classifies(h) =>
                 LET fp == Cur(h).Fingerprint
                     out == outcomes'[h][Len(outcomes'[h])]
                 IN /\ Known(before[h], fp) => out \in {"Updated", "Duplicate", "Error"}
                    /\ out = "New" =>
                          /\ ~Known(before[h], fp)
                          /\ last[fp].news = 0
                          /\ opres[h][idx[h]] = "inserted"
                          /\ Known(store, fp)
      ]_vars

\* C15 witness: a fingerprint was classified New once, and a later alert for
\* it ended Updated on the row that is still there.
C15_Witness ==
    \E fp \in Fingerprints :
        /\ last[fp].news = 1
        /\ last[fp].prior.outcome = "New"
        /\ last[fp].outcome = "Updated"
        /\ Known(store, fp)
        /\ First(store, fp).rec.ID = last[fp].prior.row.ID

\* The request of handler h has its response.
Responded(h) == pc[h] = "done" /\ resp[h].code \in {200, 500}

\* C16: when handlers keep being scheduled and every store call returns, a
\* request whose payload was bound gets its response, 200 or 500, whatever
\* the other handler does and whichever store call failed.
C16_Terminates == \A h \in Handlers : Running(h) ~> Responded(h)

\* C16 witness: two requests ran together, one had a store call fail and
\* has its 500, the other has its 200 for a payload it processed.
C16_Witness ==
    \E h, g \in Handlers :
        /\ h # g
        /\ Responded(h) /\ resp[h].code = 500 /\ outcomes[h] = <<"Error">>
        /\ Responded(g) /\ resp[g].code = 200 /\ Len(outcomes[g]) = 1

\* The handlers that inserted a row and have not yet incremented the counter.
Inserting == {h \in Handlers : pc[h] = "incNew"}

\* C17: under any interleaving the new counter is at most the number of rows
\* the process created, it is short of it by exactly the handlers that are
\* between their insert and their increment, and so equals it whenever no
\* handler is there.
C17_NewCounter ==
    /\ counters.new <= Len(store)
    /\ counters.new + Cardinality(Inserting) = Len(store)
    /\ Inserting = {} => counters.new = Len(store)

\* C17 witness: two rows were created, one is counted and the handler that
\* inserted the other has not incremented yet.
C17_Witness ==
    /\ Cardinality(Inserting) = 1
    /\ Len(store) = 2
    /\ counters.new = 1

RECURSIVE SumOver(_, _)
\* The sum of f[x] over the finite set S.
SumOver(S, f) ==
    IF S = {} THEN 0
    ELSE LET x == CHOOSE y \in S : TRUE IN f[x] + SumOver(S \ {x}, f)

\* The alerts received that no outcome counter counts.
Deficit == counters.total - (counters.new + counters.duplicate + counters.updated)

\* The alerts of running handlers that have no outcome yet.
Pending == SumOver(Handlers, [h \in Handlers |->
                IF Running(h) THEN Len(batch[h]) - Len(outcomes[h]) ELSE 0])

\* The alerts the aborted requests left uncounted: for a request aborted at
\* position i, the alerts from i on.
Lost == SumOver(Fingerprints, [fp \in Fingerprints |-> last[fp].lost])

\* C18: under any interleaving the received counter is at least the sum of
\* the new, duplicate and updated counters; it exceeds the sum by the alerts
\* of running requests that have no outcome yet plus, for each request
\* aborted at position i, its alerts from i on; so the two are equal exactly
\* when no request is running and no alert ended in an error.
C18_ReceivedCoversOutcomes ==
    /\ Deficit >= 0
    /\ Deficit = Pending + Lost
    /\ Deficit = 0 <=> ((\A h \in Handlers : ~Running(h)) /\ Lost = 0)
    /\ \A h \in Handlers :
          (pc[h] = "done" /\ resp[h].code = 500) =>
              /\ Lost >= Len(batch[h]) - Len(outcomes[h]) + 1
              /\ Deficit >= Len(batch[h]) - Len(outcomes[h]) + 1

\* C18 witness: a request of two alerts was aborted at its first alert and
\* nothing else is running: received is 2 above the outcome counters.
C18_Witness ==
    \E h \in Handlers :
        /\ pc[h] = "done" /\ resp[h].code = 500
        /\ Len(batch[h]) = 2 /\ outcomes[h] = <<"Error">>
        /\ \A g \in Handlers : ~Running(g)
        /\ Deficit = 2 /\ Lost = 2

\* The (status, ends-at) pairs of the alerts that wrote the row of fp: those
\* classified New or Updated, and the alert of a handler whose insert or
\* update is done and whose counter increment is next.
WriterPairs(fp) ==
    last[fp].writers \cup
    {<<Cur(h).Status, Cur(h).EndsAt>> :
        h \in {g \in Handlers : /\ pc[g] \in {"incNew", "incUpdated"}
                                /\ Cur(g).Fingerprint = fp}}

\* C19: under any interleaving the status and the ends-at of every row are
\* those of one alert for its fingerprint whose insert or update succeeded,
\* an alert classified New or Updated, never the status of one alert with
\* the ends-at of another.
C19_PairWrittenTogether ==
    \A i \in 1..Len(store) :
        <<store[i].Status, store[i].EndsAt>> \in WriterPairs(store[i].Fingerprint)

\* C19 witness: one handler inserted the row, the other updated it before
\* the first incremented its counter; both are classified, the row was
\* written twice and carries the status and the ends-at of the update.
C19_Witness ==
    \E fp \in Fingerprints :
        /\ Known(store, fp)
        /\ Cardinality(last[fp].writers) = 2
        /\ last[fp].outcome = "New" /\ last[fp].prior.outcome = "Updated"
        /\ last[fp].alert.EndsAt # last[fp].prior.alert.EndsAt
        /\ First(store, fp).rec.Status = last[fp].prior.alert.Status
        /\ First(store, fp).rec.EndsAt = last[fp].prior.alert.EndsAt

\* Handlers h and g each ran a one-alert payload with the same status for
\* the same fingerprint, whose row held another status at both binds; no
\* store call failed, both have answered, and the only other alert received
\* is the one that created the row.
StatusRace(h, g) ==
    /\ h # g
    /\ pc[h] = "done" /\ pc[g] = "done"
    /\ faults = 0 /\ counters.total = 3
    /\ Len(batch[h]) = 1 /\ Len(batch[g]) = 1
    /\ batch[h][1].Fingerprint = batch[g][1].Fingerprint
    /\ batch[h][1].Status = batch[g][1].Status
    /\ First(start[h].store, batch[h][1].Fingerprint).found
    /\ First(start[g].store, batch[g][1].Fingerprint).found
    /\ First(start[h].store, batch[h][1].Fingerprint).rec.Status # batch[h][1].Status
    /\ First(start[g].store, batch[g][1].Fingerprint).rec.Status # batch[g][1].Status

\* C20: of two concurrent one-alert requests that carry the same status S'
\* for a fingerprint stored with another status, exactly one ends Updated
\* and the other Duplicate, and the updated counter has grown by exactly 1
\* (from 0, the row having been created by the only other alert).
C20_SerialOutcomes ==
    \A h, g \in Handlers :
        StatusRace(h, g) =>
            /\ \E x, y \in {h, g} :
                  /\ x # y
                  /\ outcomes[x] = <<"Updated">>
                  /\ outcomes[y] = <<"Duplicate">>
            /\ counters.updated = 1

====
